---- MODULE Spec2Model ----
(***************************************************************************)
(* Model of the configuration-to-pipeline engine of tedxsdg:               *)
(*   tools/tool_registry.py      ToolRegistry (memoizing, precedence)      *)
(*   crewai_manager/manager.py   CrewAIManager (agents, tasks, crew)       *)
(***************************************************************************)
EXTENDS Integers, Sequences, FiniteSets, TLC

(***************************************************************************)
(* Bounds of the model.                                                    *)
(***************************************************************************)
\* top-level get_tool calls issued by an outside caller of the registry
MaxCalls == 3
\* defects of the environment of one registry run: tool entries without a
\* usable data_path plus tools whose concrete constructor raises
MaxDefects == 2
\* entries of the tasks document
MaxTasks == 3
\* initialize_crew calls on one manager
MaxRuns == 2

(***************************************************************************)
(* Names.                                                                  *)
(***************************************************************************)
\* the branches of get_tool (tool_registry.py:92-105)
Recognized ==
    {"tedx_search", "tedx_slug", "tedx_transcript",
     "sdg_align", "sustainability_impact", "duckduckgo_search"}

\* a name no branch of get_tool matches
UnknownName == "youtube_search"

AllNames == Recognized \cup {UnknownName}

\* the names _create_tool demands a data path for (tool_registry.py:57)
RequiresDataPath(t) == t \in {"tedx_search", "tedx_slug", "tedx_transcript"}

\* the pre-fetch calls of the branches of get_tool (tool_registry.py:95, 98)
PredecessorsNone(t) == <<>>
PredecessorsCyclic(t) ==
    CASE t = "tedx_search" -> <<"tedx_transcript">>
      [] t = "tedx_slug" -> <<"tedx_search">>
      [] t = "tedx_transcript" -> <<"tedx_slug">>
      [] OTHER -> <<>>
Predecessors(t) ==
    CASE t = "tedx_slug" -> <<"tedx_search">>
      [] t = "tedx_transcript" -> <<"tedx_slug">>
      [] OTHER -> <<>>

(***************************************************************************)
(* The tools document.  An entry of a tool is one of                       *)
(*   "NoEntry"  the document has no key for the tool                       *)
(*   "NoKey"    the entry has no data_path key                             *)
(*   "Empty"    data_path: ""                                              *)
(*   "Path"     data_path: a non-empty path                                *)
(***************************************************************************)
EntryKinds == {"NoEntry", "NoKey", "Empty", "Path"}

NoneValue == "<None>"
PathValue == "data/tedx.csv"

\* tool_config.get('data_path', None) of tool_configs.get(tool_name, {})
DataPathOf(entry) ==
    CASE entry = "Path" -> PathValue
      [] entry = "Empty" -> ""
      [] OTHER -> NoneValue

\* Python truthiness of a data_path value (`not data_path`)
Truthy(v) == v \notin {NoneValue, ""}

(***************************************************************************)
(* State.                                                                  *)
(***************************************************************************)
VARIABLES
    \* -- environment
    ctorOK,         \* does the concrete constructor of a tool return (or raise)
    \* -- ToolRegistry
    tool_configs,   \* ToolRegistry.tool_configs: tool name -> entry kind
    tools,          \* ToolRegistry.tools: tool name -> instance (0: absent)
    ctorLog,        \* constructor invocations, in order
    getLog,         \* completed get_tool calls (nested ones too), in order
    \* -- CrewAIManager
    mstate,         \* "INIT" before __init__, then "READY" or "FAILED"
    cerr,           \* the error __init__ raised
    model_config,   \* CrewAIManager.model_config
    tools_config,   \* CrewAIManager.tools_config: the tools document as loaded
    agents_config,  \* CrewAIManager.agents_config: agent name -> tool names
    tasks_config,   \* CrewAIManager.tasks_config: the entries, in document order
    tool_config,    \* CrewAIManager.tool_config (llm, embedder)
    agents,         \* CrewAIManager.agents: agent name -> instance (0: absent)
    agentLog,       \* _create_agent calls, in order
    tasks,          \* CrewAIManager.tasks
    taskLog,        \* create_task calls, in order
    pc,             \* position of initialize_crew: "idle" or "loop"
    idx,            \* position of the loop of initialize_crew in tasks_config
    runs,           \* initialize_crew calls started
    crew,           \* outcome of the last initialize_crew call
    \* -- concurrent callers of one registry
    useLock,        \* do the callers take a mutex around each top-level get_tool
    lock,           \* the holder of the mutex (0: free)
    stack,          \* per thread: the get_tool activations it is inside of
    results         \* per thread: the outcomes of its top-level get_tool calls

regVars == <<tool_configs, tools, ctorLog, getLog>>
cfgVars ==
    <<mstate, cerr, model_config, tools_config, agents_config, tasks_config,
      tool_config>>
mgrVars == <<agents, agentLog, tasks, taskLog, pc, idx, runs, crew>>
concVars == <<useLock, lock, stack, results>>
vars == <<ctorOK, regVars, cfgVars, mgrVars, concVars>>

Threads == {1, 2}

NoErr == [kind |-> "None", name |-> ""]

\* the registry as a value the operations transform
Reg == [tools |-> tools, ctorLog |-> ctorLog, getLog |-> getLog]

MemoSet(tl) == {t \in AllNames : tl[t] # 0}
MemoAgents(ag) == {a \in DOMAIN ag : ag[a] # 0}

(***************************************************************************)
(* ToolRegistry._create_tool                                               *)
(***************************************************************************)
\* the data-path check of _create_tool (tool_registry.py:57)
MissingDataPathNever(t) == FALSE
MissingDataPath(t) == RequiresDataPath(t) /\ ~Truthy(DataPathOf(tool_configs[t]))

\* _create_tool: the check, then the call of the concrete constructor, whose
\* instance is identified by the position of its invocation in ctorLog
create_tool(r, t) ==
    IF MissingDataPath(t)
    THEN [reg |-> r, ok |-> FALSE, inst |-> 0,
          err |-> [kind |-> "MissingDataPath", name |-> t]]
    ELSE LET log == Append(r.ctorLog,
                      [name |-> t, ok |-> ctorOK[t], memo |-> MemoSet(r.tools)])
             r2 == [r EXCEPT !.ctorLog = log]
         IN IF ctorOK[t]
            THEN [reg |-> r2, ok |-> TRUE, inst |-> Len(log), err |-> NoErr]
            ELSE [reg |-> r2, ok |-> FALSE, inst |-> 0,
                  err |-> [kind |-> "Constructor", name |-> t]]

(***************************************************************************)
(* ToolRegistry.get_tool                                                   *)
(***************************************************************************)
\* `tool_name in self.tools` (tool_registry.py:85)
MemoizedNever(tl, t) == FALSE
Memoized(tl, t) == tl[t] # 0

\* `self.tools[tool_name] = tool` (tool_registry.py:110)
MemoizeNothing(tl, t, inst) == tl
Memoize(tl, t, inst) == [tl EXCEPT ![t] = inst]

\* a completed call, as the log keeps it
Done(res, t, d) ==
    [res EXCEPT !.reg.getLog =
        Append(@, [name |-> t, depth |-> d, ok |-> res.ok,
                   inst |-> res.inst, err |-> res.err])]

\* the handler of get_tool (tool_registry.py:114-116): it logs the tool name and
\* re-raises with a bare `raise`, so the caller gets the very exception caught
Reraise(err, t) == err

\* does the exception itself carry the name t.  The ValueErrors of
\* _create_tool (tool_registry.py:58) and of the else branch (108) are built
\* from the tool name; what a concrete constructor raises is its own
\* (tedx_slug_tool.py:16-40, sustainability_impact_tool.py:41-46) and says
\* nothing of the registry's name for the tool.  In the model the field
\* `name` of an error is the tool whose step raised.
NamesTool(err, t) ==
    err.kind \in {"MissingDataPath", "UnknownTool"} /\ err.name = t

\* does a branch of get_tool match the name (tool_registry.py:92-108)
IsRecognizedAny(t) == TRUE
IsRecognized(t) == t \in Recognized

RECURSIVE get_tool(_, _, _)
get_tool(r, t, d) ==
    IF Memoized(r.tools, t)
    THEN Done([reg |-> r, ok |-> TRUE, inst |-> r.tools[t], err |-> NoErr], t, d)
    ELSE IF ~IsRecognized(t)
    THEN Done([reg |-> r, ok |-> FALSE, inst |-> 0,
               err |-> Reraise([kind |-> "UnknownTool", name |-> t], t)], t, d)
    ELSE LET ps == Predecessors(t)
             pre == IF ps = <<>>
                    THEN [reg |-> r, ok |-> TRUE, inst |-> 0, err |-> NoErr]
                    ELSE get_tool(r, ps[1], d + 1)
         IN IF ~pre.ok
            THEN \* the pre-fetch raised: the handler logs and re-raises it
                 Done([pre EXCEPT !.inst = 0, !.err = Reraise(@, t)], t, d)
            ELSE LET c == create_tool(pre.reg, t)
                 IN IF ~c.ok
                    THEN Done([c EXCEPT !.err = Reraise(@, t)], t, d)
                    ELSE Done([c EXCEPT !.reg.tools = Memoize(@, t, c.inst)], t, d)

\* the tools with a backing data file, and the defects of an environment
TedxTools == {"tedx_search", "tedx_slug", "tedx_transcript"}

Defects(cfg, ok) ==
    Cardinality({t \in TedxTools : cfg[t] # "Path"})
        + Cardinality({t \in Recognized : ~ok[t]})

(***************************************************************************)
(* Configuration documents of the manager.                                 *)
(***************************************************************************)
\* the value of a key of a mapping: <<>> when the mapping lacks the key, else <<v>>
Absent == <<>>
Present(v) == <<v>>

\* dict.get(key, default) of a document entry
GetAlwaysDefault(o, default) == default
Get(o, default) == IF o = Absent THEN default ELSE o[1]

\* the defaults of create_task (manager.py:116, 121)
DefaultPriority == 2
DefaultExpectedOutput == "No output specified."

\* the default temperature of _initialize_tool_config (manager.py:73)
DefaultTemperature == 1

ConfigKinds == <<"agents", "tasks", "model", "tools">>

\* order of the entries of the tools document
ToolOrder ==
    <<"tedx_search", "tedx_slug", "tedx_transcript",
      "sdg_align", "sustainability_impact", "duckduckgo_search">>

AgentNames == {"researcher", "analyst"}
GhostAgent == "ghost"
AgentUniverse == AgentNames \cup {GhostAgent}

\* the agents document: agent name -> the tool names it declares
AgentDocs ==
    { [a \in AgentNames |->
         IF a = "researcher"
         THEN <<"tedx_transcript", "duckduckgo_search">>
         ELSE <<"sdg_align">>] }

\* the model document: llm.config.model and llm.config.temperature
ModelDocs ==
    [model : {Absent, Present(""), Present("llama3")},
     temperature : {Absent, Present(-1)}]

TaskName(i) == <<"t1", "t2", "t3", "t4", "t5">>[i]
UnknownTask == "t0"

\* an entry of the tasks document; buildable: does Task(...) accept the entry
PlainEntries ==
    { e \in [agent : AgentUniverse, buildable : BOOLEAN,
             priority : {Absent}, expected_output : {Absent}] :
        e.agent = GhostAgent => e.buildable }
FieldEntries ==
    [agent : AgentUniverse, buildable : BOOLEAN,
     priority : {Absent, Present(1), Present(5)},
     expected_output : {Absent, Present(""), Present("A report")}]

RECURSIVE SeqsUpTo(_, _)
SeqsUpTo(S, n) ==
    IF n = 0 THEN {<<>>}
    ELSE LET shorter == SeqsUpTo(S, n - 1)
         IN shorter \cup {Append(q, e) : q \in {x \in shorter : Len(x) = n - 1}, e \in S}

TaskDocs ==
    (SeqsUpTo(PlainEntries, MaxTasks) \ {<<>>}) \cup {<<e>> : e \in FieldEntries}

TaskNames(doc) == {TaskName(i) : i \in 1..Len(doc)}
TaskIndex(n) == CHOOSE i \in 1..5 : TaskName(i) = n

(***************************************************************************)
(* CrewAIManager.__init__                                                  *)
(***************************************************************************)
\* _validate_config_path, in the order of __init__ (manager.py:22-25)
RECURSIVE FirstMissing(_, _)
FirstMissing(exists, i) ==
    IF i > Len(ConfigKinds) THEN ""
    ELSE IF ~exists[ConfigKinds[i]] THEN ConfigKinds[i]
    ELSE FirstMissing(exists, i + 1)

\* the field constraints of LLMConfig (schemas/config_schemas.py)
SchemaViolations(llm) ==
    {f \in {"model"} : llm.model = ""}
        \cup {f \in {"temperature"} : llm.temperature < 0}

\* the data_paths comprehension (manager.py:82-84)
RECURSIVE DataPaths(_, _)
DataPaths(td, i) ==
    IF i > Len(ToolOrder) THEN <<>>
    ELSE IF td[ToolOrder[i]] = "NoEntry" THEN DataPaths(td, i + 1)
    ELSE <<DataPathOf(td[ToolOrder[i]])>> \o DataPaths(td, i + 1)

\* _initialize_tool_config (manager.py:65-101)
initialize_tool_config(md, td) ==
    IF md.model = Absent
    THEN [ok |-> FALSE, err |-> [kind |-> "KeyError", fields |-> {"model"}]]
    ELSE IF \E t \in Recognized : td[t] = "NoKey"
    THEN [ok |-> FALSE, err |-> [kind |-> "KeyError", fields |-> {"data_path"}]]
    ELSE LET llm == [model |-> md.model[1],
                     temperature |-> Get(md.temperature, DefaultTemperature)]
         IN IF SchemaViolations(llm) # {}
            THEN [ok |-> FALSE,
                  err |-> [kind |-> "ValidationError", fields |-> SchemaViolations(llm)]]
            ELSE [ok |-> TRUE,
                  val |-> [llm |-> llm, data_paths |-> DataPaths(td, 1)]]

NoConfigErr == [kind |-> "None", fields |-> {}]
NoCrew == [status |-> "none", agents |-> {}, tasks |-> <<>>]
NoToolDoc == [t \in AllNames |-> "NoEntry"]

\* tools documents: every kind of entry for tedx_slug, a path for the other
\* tedx tools, no entry for the tools that need none
ToolDocs ==
    {td \in [AllNames -> EntryKinds] :
        /\ \A t \in AllNames \ TedxTools : td[t] = "NoEntry"
        /\ \A t \in TedxTools \ {"tedx_slug"} : td[t] = "Path"}

\* the tools whose constructor the environment of a manager run may fail
MgrFallible == {"tedx_search", "sdg_align"}

\* position of a document in the order __init__ handles them
KindIndex(k) == CHOOSE i \in 1..Len(ConfigKinds) : ConfigKinds[i] = k

\* is the document `kind` already loaded when a path is found missing: the
\* four _validate_config_path calls precede the four load_config calls
\* (manager.py:22-31)
LoadedAtPathFailureInterleaved(exists, kind) ==
    KindIndex(kind) < KindIndex(FirstMissing(exists, 1))
LoadedAtPathFailure(exists, kind) == FALSE

\* the first document load_config fails to parse (manager.py:28-31)
RECURSIVE FirstUnparsable(_, _)
FirstUnparsable(parses, i) ==
    IF i > Len(ConfigKinds) THEN ""
    ELSE IF ~parses[ConfigKinds[i]] THEN ConfigKinds[i]
    ELSE FirstUnparsable(parses, i + 1)

\* __init__ (manager.py:20-47).  Of a failed construction the state keeps the
\* error and the model and tools documents read so far.
Construct ==
    /\ mstate = "INIT"
    /\ \/ \E exists \in [{"agents", "tasks", "model", "tools"} -> BOOLEAN],
             md \in ModelDocs, td \in ToolDocs :
            /\ FirstMissing(exists, 1) # ""
            /\ mstate' = "FAILED"
            /\ cerr' = [kind |-> "FileNotFoundError",
                        fields |-> {FirstMissing(exists, 1)}]
            /\ model_config' = IF LoadedAtPathFailure(exists, "model")
                               THEN md ELSE model_config
            /\ tools_config' = IF LoadedAtPathFailure(exists, "tools")
                               THEN td ELSE tools_config
            /\ UNCHANGED <<agents_config, tasks_config, tool_config, tool_configs>>
       \/ \E parses \in [{"agents", "tasks", "model", "tools"} -> BOOLEAN],
             md \in ModelDocs :
            /\ FirstUnparsable(parses, 1) # ""
            /\ mstate' = "FAILED"
            /\ cerr' = [kind |-> "LoadError",
                        fields |-> {FirstUnparsable(parses, 1)}]
            /\ model_config' =
                    IF KindIndex("model") < KindIndex(FirstUnparsable(parses, 1))
                    THEN md ELSE model_config
            /\ UNCHANGED <<tools_config, agents_config, tasks_config,
                           tool_config, tool_configs>>
       \/ \E md \in ModelDocs, td \in ToolDocs :
            /\ ~initialize_tool_config(md, td).ok
            /\ mstate' = "FAILED"
            /\ cerr' = initialize_tool_config(md, td).err
            /\ model_config' = md
            /\ tools_config' = td
            /\ UNCHANGED <<agents_config, tasks_config, tool_config, tool_configs>>
       \/ \E md \in ModelDocs, td \in ToolDocs, ad \in AgentDocs, tk \in TaskDocs :
            /\ initialize_tool_config(md, td).ok
            /\ mstate' = "READY"
            /\ cerr' = NoConfigErr
            /\ model_config' = md
            /\ tools_config' = td
            /\ agents_config' = ad
            /\ tasks_config' = tk
            /\ tool_config' = initialize_tool_config(md, td).val
            /\ tool_configs' = td
    /\ UNCHANGED <<ctorOK, tools, ctorLog, getLog, mgrVars, concVars>>

(***************************************************************************)
(* agent_factory.create_agent and CrewAIManager._create_agent              *)
(***************************************************************************)
\* create_agent: get_tool for each declared tool name, in order; the first
\* failure is propagated unchanged
RECURSIVE BindTools(_, _, _)
BindTools(r, names, i) ==
    IF i > Len(names) THEN [reg |-> r, ok |-> TRUE, err |-> NoErr]
    ELSE LET g == get_tool(r, names[i], 0)
         IN IF ~g.ok THEN [reg |-> g.reg, ok |-> FALSE, err |-> g.err]
            ELSE BindTools(g.reg, names, i + 1)

\* _create_agent (manager.py:126-140): agents_config[agent_name], then create_agent
create_agentLenient(r, a) ==
    IF a \notin DOMAIN agents_config
    THEN [reg |-> r, ok |-> TRUE, err |-> NoErr]
    ELSE BindTools(r, agents_config[a], 1)
create_agent(r, a) ==
    IF a \notin DOMAIN agents_config
    THEN [reg |-> r, ok |-> FALSE, err |-> [kind |-> "UnknownAgent", name |-> a]]
    ELSE BindTools(r, agents_config[a], 1)

(***************************************************************************)
(* CrewAIManager.create_task                                               *)
(***************************************************************************)
\* `agent_name not in self.agents` (manager.py:111)
AgentMissingAlways(ag, a) == TRUE
AgentMissingUntried(ag, a) ==
    ag[a] = 0 /\ \A k \in 1..Len(agentLog) : agentLog[k].name # a
AgentMissing(ag, a) == ag[a] = 0

\* the manager as a value the operations transform
Mgr == [reg |-> Reg, agents |-> agents, agentLog |-> agentLog,
        tasks |-> tasks, taskLog |-> taskLog]

Attempt(m, n, ok, err) ==
    [m EXCEPT !.taskLog = Append(@, [run |-> runs, name |-> n, ok |-> ok, err |-> err])]

\* `task_name not in self.tasks_config`, then `self.tasks_config[task_name]`
\* (manager.py:104-107)
TaskLookupDefault(doc, n) ==
    [found |-> TRUE,
     entry |-> IF n \in TaskNames(doc) THEN doc[TaskIndex(n)]
               ELSE [agent |-> GhostAgent, buildable |-> TRUE,
                     priority |-> Absent, expected_output |-> Absent]]
TaskLookup(doc, n) ==
    IF n \in TaskNames(doc)
    THEN [found |-> TRUE, entry |-> doc[TaskIndex(n)]]
    ELSE [found |-> FALSE, entry |-> <<>>]

\* `self.tasks.append(task)` (manager.py:124)
AppendTaskOnce(tk, task) ==
    IF \E i \in 1..Len(tk) : tk[i].name = task.name THEN tk ELSE Append(tk, task)
AppendTask(tk, task) == Append(tk, task)

\* create_task (manager.py:103-124); the result says whether it raised
create_task(m, n) ==
    IF ~TaskLookup(tasks_config, n).found
    THEN [mgr |-> Attempt(m, n, FALSE, [kind |-> "UnknownTask", name |-> n]),
          ok |-> FALSE]
    ELSE
    LET e == TaskLookup(tasks_config, n).entry
        a == e.agent
        made == IF AgentMissing(m.agents, a)
                THEN create_agent(m.reg, a)
                ELSE [reg |-> m.reg, ok |-> TRUE, err |-> NoErr]
        m1 == IF AgentMissing(m.agents, a)
              THEN [m EXCEPT
                      !.reg = made.reg,
                      !.agentLog = Append(@, [name |-> a, ok |-> made.ok,
                                              task |-> n, err |-> made.err]),
                      !.agents = IF made.ok
                                 THEN [@ EXCEPT ![a] = Len(m.agentLog) + 1]
                                 ELSE @]
              ELSE m
    IN IF ~made.ok
       THEN [mgr |-> Attempt(m1, n, FALSE, made.err), ok |-> FALSE]
       ELSE IF ~e.buildable
       THEN [mgr |-> Attempt(m1, n, FALSE, [kind |-> "TaskError", name |-> n]),
             ok |-> FALSE]
       ELSE [mgr |-> Attempt(
                       [m1 EXCEPT !.tasks = AppendTask(@,
                           [name |-> n,
                            agent_name |-> a,
                            agent |-> m1.agents[a],
                            priority |-> Get(e.priority, DefaultPriority),
                            expected_output |->
                                Get(e.expected_output, DefaultExpectedOutput)])],
                       n, TRUE, NoErr),
             ok |-> TRUE]

SetMgr(m) ==
    /\ tools' = m.reg.tools
    /\ ctorLog' = m.reg.ctorLog
    /\ getLog' = m.reg.getLog
    /\ agents' = m.agents
    /\ agentLog' = m.agentLog
    /\ tasks' = m.tasks
    /\ taskLog' = m.taskLog

(***************************************************************************)
(* CrewAIManager.initialize_crew, one step per iteration of its loop       *)
(***************************************************************************)
\* the handler of the loop (manager.py:147-148): is the error caught
CatchesNothing(ok) == ok
Catches(ok) == TRUE

\* the advance of the loop over tasks_config (manager.py:144)
NextIndexRetry(i, ok) == IF ok THEN i + 1 ELSE i
NextIndex(i, ok) == i + 1

\* `not self.agents or not self.tasks` (manager.py:151)
EmptyPipelineBoth(ag, tk) == MemoAgents(ag) = {} /\ tk = <<>>
EmptyPipeline(ag, tk) == MemoAgents(ag) = {} \/ tk = <<>>

\* entering initialize_crew
CrewStart ==
    /\ mstate = "READY"
    /\ pc = "idle"
    /\ runs < MaxRuns
    /\ pc' = "loop"
    /\ idx' = 1
    /\ runs' = runs + 1
    /\ crew' = NoCrew
    /\ UNCHANGED <<ctorOK, regVars, cfgVars, agents, agentLog, tasks, taskLog, concVars>>

\* one iteration: create_task under the try/except
CrewStep ==
    /\ pc = "loop"
    /\ idx <= Len(tasks_config)
    /\ LET res == create_task(Mgr, TaskName(idx))
       IN /\ SetMgr(res.mgr)
          /\ IF Catches(res.ok)
             THEN /\ idx' = NextIndex(idx, res.ok)
                  /\ UNCHANGED <<pc, crew>>
             ELSE /\ pc' = "idle"
                  /\ idx' = 0
                  /\ crew' = [status |-> "raised_task", agents |-> {}, tasks |-> <<>>]
    /\ UNCHANGED <<ctorOK, tool_configs, cfgVars, runs, concVars>>

\* after the loop: the check and the construction of the Crew
CrewFinish ==
    /\ pc = "loop"
    /\ idx > Len(tasks_config)
    /\ pc' = "idle"
    /\ idx' = 0
    /\ crew' = IF EmptyPipeline(agents, tasks)
               THEN [status |-> "raised_empty", agents |-> {}, tasks |-> <<>>]
               ELSE [status |-> "returned",
                     agents |-> {agents[a] : a \in MemoAgents(agents)},
                     tasks |-> tasks]
    /\ UNCHANGED <<ctorOK, regVars, cfgVars, agents, agentLog, tasks, taskLog, runs,
                   concVars>>

InitMgr ==
    /\ ctorOK \in [AllNames -> BOOLEAN]
    /\ \A t \in AllNames \ MgrFallible : ctorOK[t]
    /\ tool_configs = NoToolDoc
    /\ tools = [t \in AllNames |-> 0]
    /\ ctorLog = <<>>
    /\ getLog = <<>>
    /\ mstate = "INIT"
    /\ cerr = NoConfigErr
    /\ model_config = [model |-> Absent, temperature |-> Absent]
    /\ tools_config = NoToolDoc
    /\ agents_config = <<>>
    /\ tasks_config = <<>>
    /\ tool_config = [llm |-> [model |-> "", temperature |-> 0], data_paths |-> <<>>]
    /\ agents = [a \in AgentUniverse |-> 0]
    /\ agentLog = <<>>
    /\ tasks = <<>>
    /\ taskLog = <<>>
    /\ pc = "idle"
    /\ idx = 0
    /\ runs = 0
    /\ crew = NoCrew
    /\ useLock = FALSE
    /\ lock = 0
    /\ stack = [k \in Threads |-> <<>>]
    /\ results = [k \in Threads |-> <<>>]

NextMgr == Construct \/ CrewStart \/ CrewStep \/ CrewFinish

SpecMgr == InitMgr /\ [][NextMgr]_vars

(***************************************************************************)
(* Registry on its own: a caller issuing get_tool calls.                   *)
(***************************************************************************)
\* the tools whose constructor the environment of a registry run may fail
RegFallible == TedxTools

TopCalls(log) == Cardinality({i \in 1..Len(log) : log[i].depth = 0})

InitReg ==
    /\ tool_configs \in [AllNames -> {"NoEntry", "Empty", "Path"}]
    /\ \A t \in AllNames \ TedxTools : tool_configs[t] = "NoEntry"
    \* "" and a missing entry are the same to _create_tool: one tool shows both
    /\ \A t \in TedxTools \ {"tedx_slug"} : tool_configs[t] # "Empty"
    /\ ctorOK \in [AllNames -> BOOLEAN]
    /\ \A t \in AllNames \ RegFallible : ctorOK[t]
    /\ Defects(tool_configs, ctorOK) <= MaxDefects
    /\ tools = [t \in AllNames |-> 0]
    /\ ctorLog = <<>>
    /\ getLog = <<>>
    /\ mstate = "READY"
    /\ cerr = NoConfigErr
    /\ model_config = [model |-> Absent, temperature |-> Absent]
    /\ tools_config = NoToolDoc
    /\ agents_config = <<>>
    /\ tasks_config = <<>>
    /\ tool_config = [llm |-> [model |-> "", temperature |-> 0], data_paths |-> <<>>]
    /\ agents = [a \in AgentUniverse |-> 0]
    /\ agentLog = <<>>
    /\ tasks = <<>>
    /\ taskLog = <<>>
    /\ pc = "idle"
    /\ idx = 0
    /\ runs = 0
    /\ crew = NoCrew
    /\ useLock = FALSE
    /\ lock = 0
    /\ stack = [k \in Threads |-> <<>>]
    /\ results = [k \in Threads |-> <<>>]

GetToolCall(t) ==
    /\ TopCalls(getLog) < MaxCalls
    /\ LET res == get_tool(Reg, t, 0)
       IN /\ tools' = res.reg.tools
          /\ ctorLog' = res.reg.ctorLog
          /\ getLog' = res.reg.getLog
    /\ UNCHANGED <<tool_configs, ctorOK, cfgVars, mgrVars, concVars>>

NextReg == \E t \in AllNames : GetToolCall(t)

SpecReg == InitReg /\ [][NextReg]_vars

(***************************************************************************)
(* A constructed manager whose create_task is called directly, with names  *)
(* of the tasks document and with a name it lacks.                         *)
(***************************************************************************)
MaxDirect == 3

\* the tasks documents of two plain entries
TaskPairs == {<<e1, e2>> : e1 \in PlainEntries, e2 \in PlainEntries}

DirectNames == {TaskName(1), TaskName(2), UnknownTask}

InitTask ==
    /\ ctorOK \in [AllNames -> BOOLEAN]
    /\ \A t \in AllNames \ MgrFallible : ctorOK[t]
    /\ tool_configs \in {td \in ToolDocs : td["tedx_slug"] \in {"Empty", "Path"}}
    /\ tools_config = tool_configs
    /\ tools = [t \in AllNames |-> 0]
    /\ ctorLog = <<>>
    /\ getLog = <<>>
    /\ mstate = "READY"
    /\ cerr = NoConfigErr
    /\ model_config = [model |-> Present("llama3"), temperature |-> Absent]
    /\ agents_config \in AgentDocs
    /\ tasks_config \in TaskPairs
    /\ tool_config = initialize_tool_config(model_config, tools_config).val
    /\ agents = [a \in AgentUniverse |-> 0]
    /\ agentLog = <<>>
    /\ tasks = <<>>
    /\ taskLog = <<>>
    /\ pc = "idle"
    /\ idx = 0
    /\ runs = 0
    /\ crew = NoCrew
    /\ useLock = FALSE
    /\ lock = 0
    /\ stack = [k \in Threads |-> <<>>]
    /\ results = [k \in Threads |-> <<>>]

CreateTaskCall(n) ==
    /\ Len(taskLog) < MaxDirect
    /\ SetMgr(create_task(Mgr, n).mgr)
    /\ UNCHANGED <<ctorOK, tool_configs, cfgVars, pc, idx, runs, crew, concVars>>

NextTask == \E n \in DirectNames : CreateTaskCall(n)

SpecTask == InitTask /\ [][NextTask]_vars

(***************************************************************************)
(* Two threads calling get_tool of one registry.  A thread is inside a     *)
(* stack of get_tool activations (the pre-fetch is a nested call); an      *)
(* activation is at the membership test ("check", tool_registry.py:85),    *)
(* before _create_tool ("create", 93-105) or before the store ("store",    *)
(* 110).  The registry has no lock of its own; with useLock the callers    *)
(* hold one mutex for the whole of each top-level call.                    *)
(***************************************************************************)
MaxThreadCalls == 1

ConcNames == TedxTools \cup {UnknownName}

\* may a caller start a top-level call
MayEnter(use, l) == use => l = 0

Top(k) == stack[k][Len(stack[k])]
SetTop(k, f) == [stack[k] EXCEPT ![Len(stack[k])] = f]
\* an activation; `ctors` counts, in the bottom activation of a stack, the
\* constructor invocations of the top-level call so far
Frame(t) == [name |-> t, pc |-> "check", inst |-> 0, ctors |-> 0]

\* the activation on top returns inst (tool_registry.py:87, 112)
Returns(k, inst) ==
    /\ stack' = [stack EXCEPT ![k] = SubSeq(@, 1, Len(@) - 1)]
    /\ IF Len(stack[k]) = 1
       THEN /\ results' = [results EXCEPT ![k] =
                             Append(@, [name |-> Top(k).name, ok |-> TRUE,
                                        inst |-> inst, err |-> NoErr,
                                        ctors |-> Top(k).ctors])]
            /\ lock' = 0
       ELSE UNCHANGED <<lock, results>>

\* the activation on top raises, after the call invoked n more constructors:
\* every enclosing handler re-raises (tool_registry.py:114-116), so the
\* top-level call raises the same error
Raises(k, err, n) ==
    /\ stack' = [stack EXCEPT ![k] = <<>>]
    /\ results' = [results EXCEPT ![k] =
                     Append(@, [name |-> stack[k][1].name, ok |-> FALSE,
                                inst |-> 0, err |-> err,
                                ctors |-> stack[k][1].ctors + n])]
    /\ lock' = 0

ThreadCall(k, t) ==
    /\ stack[k] = <<>>
    /\ Len(results[k]) < MaxThreadCalls
    /\ MayEnter(useLock, lock)
    /\ lock' = IF useLock THEN k ELSE lock
    /\ stack' = [stack EXCEPT ![k] = <<Frame(t)>>]
    /\ UNCHANGED <<ctorOK, regVars, cfgVars, mgrVars, useLock, results>>

\* the membership test and the choice of the branch
ThreadCheck(k) ==
    /\ stack[k] # <<>>
    /\ Top(k).pc = "check"
    /\ LET f == Top(k)
           ps == Predecessors(f.name)
           waiting == SetTop(k, [f EXCEPT !.pc = "create"])
       IN IF Memoized(tools, f.name) THEN Returns(k, tools[f.name])
          ELSE IF ~IsRecognized(f.name)
          THEN Raises(k, Reraise([kind |-> "UnknownTool", name |-> f.name], f.name), 0)
          ELSE /\ stack' = [stack EXCEPT ![k] =
                              IF ps = <<>> THEN waiting
                              ELSE Append(waiting, Frame(ps[1]))]
               /\ UNCHANGED <<lock, results>>
    /\ UNCHANGED <<ctorOK, regVars, cfgVars, mgrVars, useLock>>

\* _create_tool: the data-path check and the concrete constructor
ThreadCreate(k) ==
    /\ stack[k] # <<>>
    /\ Top(k).pc = "create"
    /\ LET f == Top(k)
           c == create_tool(Reg, f.name)
           n == Len(c.reg.ctorLog) - Len(ctorLog)
           built == SetTop(k, [f EXCEPT !.pc = "store", !.inst = c.inst])
       IN /\ ctorLog' = c.reg.ctorLog
          /\ IF c.ok
             THEN /\ stack' = [stack EXCEPT ![k] =
                                 [built EXCEPT ![1].ctors = @ + n]]
                  /\ UNCHANGED <<lock, results>>
             ELSE Raises(k, Reraise(c.err, f.name), n)
    /\ UNCHANGED <<ctorOK, tool_configs, tools, getLog, cfgVars, mgrVars, useLock>>

\* the store, and the return of the instance just built
ThreadStore(k) ==
    /\ stack[k] # <<>>
    /\ Top(k).pc = "store"
    /\ tools' = Memoize(tools, Top(k).name, Top(k).inst)
    /\ Returns(k, Top(k).inst)
    /\ UNCHANGED <<ctorOK, tool_configs, ctorLog, getLog, cfgVars, mgrVars, useLock>>

InitConc ==
    /\ tool_configs = [t \in AllNames |-> IF t \in TedxTools THEN "Path" ELSE "NoEntry"]
    /\ ctorOK \in [AllNames -> BOOLEAN]
    /\ \A t \in AllNames \ {"tedx_slug"} : ctorOK[t]
    /\ tools = [t \in AllNames |-> 0]
    /\ ctorLog = <<>>
    /\ getLog = <<>>
    /\ mstate = "READY"
    /\ cerr = NoConfigErr
    /\ model_config = [model |-> Absent, temperature |-> Absent]
    /\ tools_config = NoToolDoc
    /\ agents_config = <<>>
    /\ tasks_config = <<>>
    /\ tool_config = [llm |-> [model |-> "", temperature |-> 0], data_paths |-> <<>>]
    /\ agents = [a \in AgentUniverse |-> 0]
    /\ agentLog = <<>>
    /\ tasks = <<>>
    /\ taskLog = <<>>
    /\ pc = "idle"
    /\ idx = 0
    /\ runs = 0
    /\ crew = NoCrew
    /\ useLock \in BOOLEAN
    /\ lock = 0
    /\ stack = [k \in Threads |-> <<>>]
    /\ results = [k \in Threads |-> <<>>]

NextConc ==
    \E k \in Threads :
        \/ \E t \in ConcNames : ThreadCall(k, t)
        \/ ThreadCheck(k)
        \/ ThreadCreate(k)
        \/ ThreadStore(k)

SpecConc == InitConc /\ [][NextConc]_vars

\* a thread inside a call is scheduled again: the steps of a call are plain
\* Python statements of a runnable thread, nothing in them waits
ThreadStep(k) == ThreadCheck(k) \/ ThreadCreate(k) \/ ThreadStore(k)

SpecConcFair == SpecConc /\ \A k \in Threads : WF_vars(ThreadStep(k))

(***************************************************************************)
(* What the documents and the environment determine, stated without the    *)
(* operations: the precedence chain of a tool and what can be built.       *)
(***************************************************************************)
\* the tools to build for t, in the order the precedence list prescribes
ChainOf(t) ==
    CASE t = "tedx_slug" -> <<"tedx_search", "tedx_slug">>
      [] t = "tedx_transcript" -> <<"tedx_search", "tedx_slug", "tedx_transcript">>
      [] OTHER -> <<t>>
ChainSet(t) == {ChainOf(t)[i] : i \in 1..Len(ChainOf(t))}
StrictPredecessors(t) == ChainSet(t) \ {t}

HasDataPath(t) == tool_configs[t] = "Path"
Usable(t) ==
    /\ t \in Recognized
    /\ t \in TedxTools => HasDataPath(t)
    /\ ctorOK[t]
Obtainable(t) == \A u \in ChainSet(t) : Usable(u)

\* the error of the first tool of the chain of t that cannot be built
RECURSIVE FirstFailure(_, _)
FirstFailure(chain, i) ==
    IF i > Len(chain) THEN NoErr
    ELSE IF chain[i] \in TedxTools /\ ~HasDataPath(chain[i])
    THEN [kind |-> "MissingDataPath", name |-> chain[i]]
    ELSE IF ~ctorOK[chain[i]] THEN [kind |-> "Constructor", name |-> chain[i]]
    ELSE FirstFailure(chain, i + 1)

CtorCount(t) == Cardinality({i \in 1..Len(ctorLog) : ctorLog[i].name = t})
Gets == 1..Len(getLog)
TopGets == {i \in Gets : getLog[i].depth = 0}
Requested == {getLog[i].name : i \in TopGets}
FirstTop == CHOOSE i \in TopGets : \A j \in TopGets : i <= j

AgentObtainable(a) ==
    /\ a \in DOMAIN agents_config
    /\ \A k \in 1..Len(agents_config[a]) : Obtainable(agents_config[a][k])
TaskSucceeds(i) ==
    AgentObtainable(tasks_config[i].agent) /\ tasks_config[i].buildable

RECURSIVE NamesWhere(_, _, _)
NamesWhere(P(_), i, n) ==
    IF i > n THEN <<>>
    ELSE (IF P(i) THEN <<TaskName(i)>> ELSE <<>>) \o NamesWhere(P, i + 1, n)
SucceedingNames == NamesWhere(TaskSucceeds, 1, Len(tasks_config))
AllTaskNames == [i \in 1..Len(tasks_config) |-> TaskName(i)]
NamesOf(sq) == [i \in 1..Len(sq) |-> sq[i].name]
RunDone == mstate = "READY" /\ pc = "idle" /\ runs >= 1

(***************************************************************************)
(* C1: for a recognized tool whose constructor succeeds, every get_tool of *)
(* that name returns the identical instance and the constructor of the     *)
(* tool is invoked exactly once, however many calls there are.             *)
(***************************************************************************)
C1_IdempotentConstruction ==
    \A t \in Recognized :
        ctorOK[t] =>
            /\ CtorCount(t) <= 1
            /\ \A i, j \in Gets :
                 (getLog[i].name = t /\ getLog[j].name = t
                     /\ getLog[i].ok /\ getLog[j].ok)
                 => getLog[i].inst = getLog[j].inst
            /\ (\E i \in Gets : getLog[i].name = t /\ getLog[i].ok)
                 => CtorCount(t) = 1

\* the same tool was returned by two top-level calls
C1_Witness ==
    \E i, j \in TopGets :
        /\ i < j
        /\ getLog[i].name = getLog[j].name
        /\ getLog[i].ok /\ getLog[j].ok
        /\ getLog[i].inst = getLog[j].inst

(***************************************************************************)
(* C2: a constructor is never invoked before every precedence predecessor  *)
(* of its tool has been constructed successfully and memoized; when the    *)
(* first request on a fresh registry is tedx_transcript and succeeds, the  *)
(* constructors run in the order tedx_search, tedx_slug, tedx_transcript.  *)
(***************************************************************************)
C2_PredecessorOrder ==
    /\ \A i \in 1..Len(ctorLog) :
         \A p \in StrictPredecessors(ctorLog[i].name) :
            /\ p \in ctorLog[i].memo
            /\ \E j \in 1..(i - 1) : ctorLog[j].name = p /\ ctorLog[j].ok
    /\ (TopGets # {} /\ getLog[FirstTop].name = "tedx_transcript" /\ getLog[FirstTop].ok)
         => /\ Len(ctorLog) >= 3
            /\ NamesOf(SubSeq(ctorLog, 1, 3))
                 = <<"tedx_search", "tedx_slug", "tedx_transcript">>

\* tedx_transcript was requested after unrelated tools had been built
C2_Witness ==
    /\ Len(ctorLog) = 5
    /\ NamesOf(SubSeq(ctorLog, 3, 5)) = <<"tedx_search", "tedx_slug", "tedx_transcript">>
    /\ \A i \in 1..5 : ctorLog[i].ok
    /\ getLog[Len(getLog)].name = "tedx_transcript"
    /\ getLog[Len(getLog)].ok

(***************************************************************************)
(* C3: initialize_crew never re-raises the failure of one task; when at    *)
(* least one task of the document can be built, the first call on a fresh  *)
(* manager returns a crew whose tasks are exactly the tasks that can be    *)
(* built, none of the failing ones.                                        *)
(***************************************************************************)
C3_PartialFailureContained ==
    /\ crew.status # "raised_task"
    /\ (RunDone /\ runs = 1 /\ SucceedingNames # <<>>)
         => /\ crew.status = "returned"
            /\ NamesOf(crew.tasks) = SucceedingNames

\* three tasks, the second naming an agent the agents document lacks
C3_Witness ==
    /\ RunDone /\ runs = 1
    /\ Len(tasks_config) = 3
    /\ tasks_config[2].agent = GhostAgent
    /\ crew.status = "returned"
    /\ NamesOf(crew.tasks) = <<"t1", "t3">>

(***************************************************************************)
(* C4: initialize_crew returns a crew only if the agent table and the task *)
(* sequence are both non-empty after the pass, and raises the empty-       *)
(* pipeline error otherwise, in particular when every task names an        *)
(* unknown agent; a returned crew has at least one agent and one task.     *)
(***************************************************************************)
C4_NonEmptyPipeline ==
    /\ crew.status = "returned" => (crew.agents # {} /\ crew.tasks # <<>>)
    /\ crew.status = "raised_empty" => (crew.agents = {} /\ crew.tasks = <<>>)
    /\ RunDone =>
         /\ crew.status = "returned" <=> (MemoAgents(agents) # {} /\ tasks # <<>>)
         /\ crew.status # "returned" => crew.status = "raised_empty"
         /\ (\A i \in 1..Len(tasks_config) : tasks_config[i].agent = GhostAgent)
              => crew.status = "raised_empty"

\* an agent was built, no task was: the call raised
C4_Witness ==
    /\ RunDone
    /\ crew.status = "raised_empty"
    /\ MemoAgents(agents) # {}
    /\ tasks = <<>>

(***************************************************************************)
(* C5, as stated: get_tool of a tool that needs a data path and has none   *)
(* fails with the missing-data-path error naming that tool, without        *)
(* invoking its constructor and without memoizing it.                      *)
(***************************************************************************)
C5_MissingPathNamesTool ==
    \A i \in Gets :
        (getLog[i].name \in TedxTools /\ ~HasDataPath(getLog[i].name))
        => /\ ~getLog[i].ok
           /\ getLog[i].err = [kind |-> "MissingDataPath", name |-> getLog[i].name]
           /\ CtorCount(getLog[i].name) = 0
           /\ ~Memoized(tools, getLog[i].name)

(***************************************************************************)
(* C5, amended: such a get_tool call fails, the constructor of the tool is *)
(* never invoked and the tool is never memoized; the error is the missing- *)
(* data-path error naming the tool when all its precedence predecessors    *)
(* can be built, and the error of the first predecessor that cannot be     *)
(* built otherwise.                                                        *)
(***************************************************************************)
C5_MissingPathFails ==
    \A i \in Gets :
        (getLog[i].name \in TedxTools /\ ~HasDataPath(getLog[i].name))
        => /\ ~getLog[i].ok
           /\ getLog[i].err = FirstFailure(ChainOf(getLog[i].name), 1)
           /\ (\A p \in StrictPredecessors(getLog[i].name) : Usable(p))
                => getLog[i].err = [kind |-> "MissingDataPath", name |-> getLog[i].name]
           /\ CtorCount(getLog[i].name) = 0
           /\ ~Memoized(tools, getLog[i].name)

\* tedx_transcript has no data path; its predecessors were built by the call
C5_Witness ==
    \E i \in TopGets :
        /\ getLog[i].name = "tedx_transcript"
        /\ ~HasDataPath("tedx_transcript")
        /\ getLog[i].err = [kind |-> "MissingDataPath", name |-> "tedx_transcript"]
        /\ Memoized(tools, "tedx_slug")

(***************************************************************************)
(* C6: a failed validation of the model document reports every violated    *)
(* field constraint: model missing or empty, temperature below 0.          *)
(***************************************************************************)
DocViolations(md) ==
    {f \in {"model"} : Get(md.model, "") = ""}
        \cup {f \in {"temperature"} : Get(md.temperature, DefaultTemperature) < 0}

C6_AllViolationsReported ==
    (mstate = "FAILED" /\ cerr.kind \in {"KeyError", "ValidationError"}
        /\ "data_path" \notin cerr.fields)
    => cerr.fields = DocViolations(model_config)

(***************************************************************************)
(* C7: one initialize_crew call attempts create_task exactly once per task *)
(* name, in document order, without retrying a failed task; the tasks it   *)
(* appends are the succeeding tasks of the document, in document order.    *)
(***************************************************************************)
AttemptsOfRun(r) == SelectSeq(taskLog, LAMBDA x : x.run = r)
AppendedInRun(r) == SelectSeq(AttemptsOfRun(r), LAMBDA x : x.ok)

C7_DocumentOrder ==
    /\ pc = "loop" => NamesOf(AttemptsOfRun(runs)) = SubSeq(AllTaskNames, 1, idx - 1)
    /\ \A r \in 1..runs :
         (r < runs \/ pc = "idle")
         => /\ NamesOf(AttemptsOfRun(r)) = AllTaskNames
            /\ NamesOf(AppendedInRun(r)) = SucceedingNames
    /\ NamesOf(tasks) = NamesOf(SelectSeq(taskLog, LAMBDA x : x.ok))
    /\ (RunDone /\ runs = 1) => NamesOf(tasks) = SucceedingNames

\* the first task failed, the two after it were built
C7_Witness ==
    /\ RunDone /\ runs = 1
    /\ Len(taskLog) = 3
    /\ ~taskLog[1].ok
    /\ NamesOf(tasks) = <<"t2", "t3">>

(***************************************************************************)
(* C8: an agent instance is created at most once per agent name, only      *)
(* while a task naming that agent is being built, and all tasks naming one *)
(* agent are bound to the identical instance.                              *)
(***************************************************************************)
C8_AgentsMemoized ==
    /\ \A a \in AgentUniverse :
         Cardinality({k \in 1..Len(agentLog) : agentLog[k].name = a /\ agentLog[k].ok}) <= 1
    /\ \A k \in 1..Len(agentLog) :
         /\ agentLog[k].task \in TaskNames(tasks_config)
         /\ tasks_config[TaskIndex(agentLog[k].task)].agent = agentLog[k].name
    /\ taskLog = <<>> => (agentLog = <<>> /\ MemoAgents(agents) = {})
    /\ \A a \in MemoAgents(agents) :
         agentLog[agents[a]].name = a /\ agentLog[agents[a]].ok
    /\ \A i \in 1..Len(tasks) :
         /\ tasks[i].agent # 0
         /\ tasks[i].agent = agents[tasks[i].agent_name]
    /\ \A i, j \in 1..Len(tasks) :
         tasks[i].agent_name = tasks[j].agent_name => tasks[i].agent = tasks[j].agent

\* two different tasks share one agent instance
C8_Witness ==
    \E i, j \in 1..Len(tasks) :
        /\ tasks[i].name # tasks[j].name
        /\ tasks[i].agent_name = tasks[j].agent_name
        /\ tasks[i].agent = tasks[j].agent
        /\ Cardinality({k \in 1..Len(agentLog) :
                          agentLog[k].name = tasks[i].agent_name}) = 1

(***************************************************************************)
(* C9: the memoized set depends only on the set of names requested, not on *)
(* the order of the requests: it is the requested names and their          *)
(* precedence predecessors, restricted to the tools that can be built.     *)
(***************************************************************************)
C9_OrderIndependentMemo ==
    MemoSet(tools) =
        {t \in UNION {ChainSet(q) : q \in Requested} : Obtainable(t)}

\* three requests, one of them failed, a predecessor nobody requested is kept
C9_Witness ==
    /\ Cardinality(Requested) = 3
    /\ \E q \in Requested : ~Memoized(tools, q)
    /\ \E t \in MemoSet(tools) : t \notin Requested

(***************************************************************************)
(* C10: a Task built from an entry without priority has priority 2, one    *)
(* built from an entry without expected_output has the fixed non-empty     *)
(* placeholder; values the entry gives are used unchanged.                 *)
(***************************************************************************)
C10_Defaults ==
    \A i \in 1..Len(tasks) :
        LET e == tasks_config[TaskIndex(tasks[i].name)]
        IN /\ e.priority = Absent => tasks[i].priority = 2
           /\ e.priority # Absent => tasks[i].priority = e.priority[1]
           /\ e.expected_output = Absent
                => /\ tasks[i].expected_output = "No output specified."
                   /\ tasks[i].expected_output # ""
           /\ e.expected_output # Absent
                => tasks[i].expected_output = e.expected_output[1]

\* a task built from an entry giving neither key
C10_Witness ==
    \E i \in 1..Len(tasks) :
        /\ tasks_config[TaskIndex(tasks[i].name)].priority = Absent
        /\ tasks_config[TaskIndex(tasks[i].name)].expected_output = Absent
        /\ tasks[i].priority = 2

(***************************************************************************)
(* C11: the data_paths of the embedder configuration are, in the order of  *)
(* the tools document, the data_path of every entry that declares one; an  *)
(* entry without data_path is skipped and does not fail the construction.  *)
(***************************************************************************)
RECURSIVE DeclaredPaths(_, _)
DeclaredPaths(td, i) ==
    IF i > Len(ToolOrder) THEN <<>>
    ELSE IF td[ToolOrder[i]] \in {"Empty", "Path"}
    THEN <<DataPathOf(td[ToolOrder[i]])>> \o DeclaredPaths(td, i + 1)
    ELSE DeclaredPaths(td, i + 1)

C11_UndeclaredPathSkipped ==
    /\ mstate = "READY" => tool_config.data_paths = DeclaredPaths(tools_config, 1)
    /\ (mstate = "FAILED" /\ \E t \in AllNames : tools_config[t] = "NoKey")
            => cerr.kind # "KeyError" \/ "data_path" \notin cerr.fields

(***************************************************************************)
(* C12: construction fails fast.  The four paths are checked before any    *)
(* document is loaded, so a missing path leaves every document unread; a   *)
(* manager exists only when every document loaded and validated; and a     *)
(* failed construction has created no registry, tool, agent or task.       *)
(***************************************************************************)
NothingLoaded ==
    /\ model_config = [model |-> Absent, temperature |-> Absent]
    /\ tools_config = NoToolDoc

NothingCreated ==
    /\ tool_configs = NoToolDoc
    /\ MemoSet(tools) = {}
    /\ ctorLog = <<>>
    /\ getLog = <<>>
    /\ MemoAgents(agents) = {}
    /\ agentLog = <<>>
    /\ tasks = <<>>
    /\ taskLog = <<>>
    /\ runs = 0
    /\ crew = NoCrew

C12_FailFast ==
    /\ mstate = "FAILED" => cerr.kind # "None" /\ NothingCreated
    /\ (mstate = "FAILED" /\ cerr.kind = "FileNotFoundError") => NothingLoaded
    /\ mstate = "INIT" => NothingLoaded /\ NothingCreated
    /\ mstate = "READY"
         => /\ cerr = NoConfigErr
            /\ DocViolations(model_config) = {}
            /\ \A t \in AllNames : tools_config[t] # "NoKey"
            /\ tool_configs = tools_config

\* a construction that failed at its last step, the validation
C12_Witness ==
    /\ mstate = "FAILED"
    /\ cerr.kind = "ValidationError"
    /\ tools_config \in ToolDocs

(***************************************************************************)
(* C13: get_tool of a name outside the recognized set fails with the       *)
(* unknown-tool error carrying that name, invokes no constructor and       *)
(* leaves the memo table unchanged.                                        *)
(***************************************************************************)
C13_UnknownToolRejected ==
    [][(/\ TopCalls(getLog') = TopCalls(getLog) + 1
        /\ getLog'[Len(getLog')].name = UnknownName)
          => /\ getLog' = Append(getLog,
                    [name |-> UnknownName, depth |-> 0, ok |-> FALSE, inst |-> 0,
                     err |-> [kind |-> "UnknownTool", name |-> UnknownName]])
             /\ ctorLog' = ctorLog
             /\ tools' = tools]_vars

\* an unknown name was requested of a registry that already held tools
C13_Witness ==
    \E i \in TopGets :
        /\ i > 1
        /\ getLog[i].name = UnknownName
        /\ getLog[i].err = [kind |-> "UnknownTool", name |-> UnknownName]
        /\ MemoSet(tools) # {}
        /\ ctorLog # <<>>

(***************************************************************************)
(* C14: when the concrete constructor of t raises during get_tool(t), the  *)
(* call fails (the error is not swallowed), the error delivered is a       *)
(* wrapped error that carries the name t, and t is not memoized.           *)
(***************************************************************************)
\* the call getLog[i] ran the constructor of its own tool, which raised
OwnConstructorRaised(i) ==
    /\ ~ctorOK[getLog[i].name]
    /\ FirstFailure(ChainOf(getLog[i].name), 1)
          = [kind |-> "Constructor", name |-> getLog[i].name]

C14_ConstructorFailureWrapped ==
    \A i \in Gets :
        OwnConstructorRaised(i)
          => /\ ~getLog[i].ok
             /\ getLog[i].inst = 0
             /\ getLog[i].err # [kind |-> "Constructor", name |-> getLog[i].name]
             /\ NamesTool(getLog[i].err, getLog[i].name)
             /\ ~Memoized(tools, getLog[i].name)

(***************************************************************************)
(* C15: in every returned pipeline the agent set is exactly the set of the *)
(* agents its tasks reference: the agent of each task is in the set, and   *)
(* every agent of the set is the agent of at least one task.               *)
(***************************************************************************)
C15_AgentsExactlyReferenced ==
    crew.status = "returned"
        => /\ \A i \in 1..Len(crew.tasks) : crew.tasks[i].agent \in crew.agents
           /\ \A g \in crew.agents :
                \E i \in 1..Len(crew.tasks) : crew.tasks[i].agent = g

(***************************************************************************)
(* C16: get_tool is not atomic.  Without a lock two concurrent callers of  *)
(* get_tool(t) can both find t absent, run the constructor of t twice and  *)
(* obtain different instances (the witness); when every top-level call     *)
(* runs under one mutex, no constructor that returns runs twice, a tool    *)
(* that was obtained was built exactly once, and all callers of a tool     *)
(* obtain the same instance.                                               *)
(***************************************************************************)
\* the instances the top-level calls of thread k obtained for t
Obtained(k, t) ==
    {results[k][i].inst :
        i \in {j \in 1..Len(results[k]) : results[k][j].name = t /\ results[k][j].ok}}

C16_MutexConstructsOnce ==
    useLock =>
        /\ \A t \in AllNames : ctorOK[t] => CtorCount(t) <= 1
        /\ \A t \in AllNames :
             (UNION {Obtained(k, t) : k \in Threads}) # {}
                => /\ CtorCount(t) = 1
                   /\ Cardinality(UNION {Obtained(k, t) : k \in Threads}) = 1
        /\ \A k \in Threads : stack[k] # <<>> => lock = k

\* the race: no lock, both callers of one tool got an instance of their own
C16_Witness ==
    /\ ~useLock
    /\ \E t \in TedxTools :
         /\ CtorCount(t) = 2
         /\ Obtained(1, t) # {}
         /\ Obtained(2, t) # {}
         /\ Obtained(1, t) # Obtained(2, t)

(***************************************************************************)
(* C17: a manager makes one forward pass.  Nothing is constructed before   *)
(* the registry exists, and once initialize_crew has returned or raised    *)
(* the manager is in a terminal state: no create_task is attempted, so no  *)
(* agent, task or tool is constructed, by a later call.                    *)
(***************************************************************************)
C17_SingleForwardPass ==
    /\ mstate # "READY" => ctorLog = <<>> /\ agentLog = <<>> /\ taskLog = <<>>
    /\ tool_configs = NoToolDoc => ctorLog = <<>> /\ agentLog = <<>>
    /\ \A i \in 1..Len(taskLog) : taskLog[i].run <= 1

(***************************************************************************)
(* C18: creating an agent whose name the agents document lacks fails with  *)
(* the unknown-agent error carrying the name; creating one a declared tool *)
(* of which cannot be obtained fails with the error of that get_tool call, *)
(* unchanged; in both cases the agent table gets no entry for the name.    *)
(***************************************************************************)
\* the first tool agent a declares that cannot be obtained
RECURSIVE FirstFailingTool(_, _)
FirstFailingTool(names, i) ==
    IF i > Len(names) THEN ""
    ELSE IF ~Obtainable(names[i]) THEN names[i]
    ELSE FirstFailingTool(names, i + 1)

C18_AgentCreationFailure ==
    \A k \in 1..Len(agentLog) :
        LET a == agentLog[k].name
        IN /\ a \notin DOMAIN agents_config
                => /\ ~agentLog[k].ok
                   /\ agentLog[k].err = [kind |-> "UnknownAgent", name |-> a]
                   /\ agents[a] = 0
           /\ (a \in DOMAIN agents_config /\ ~AgentObtainable(a))
                => LET t == FirstFailingTool(agents_config[a], 1)
                   IN /\ ~agentLog[k].ok
                      /\ agentLog[k].err = FirstFailure(ChainOf(t), 1)
                      /\ \E i \in TopGets :
                            /\ getLog[i].name = t
                            /\ ~getLog[i].ok
                            /\ getLog[i].err = agentLog[k].err
                      /\ agents[a] = 0
           /\ ~agentLog[k].ok => ~Memoized(agents, a)

\* both failures happened in one run: an undeclared agent and a tool error
C18_Witness ==
    /\ \E k \in 1..Len(agentLog) : agentLog[k].err.kind = "UnknownAgent"
    /\ \E k \in 1..Len(agentLog) :
         agentLog[k].err.kind \in {"MissingDataPath", "Constructor"}

(***************************************************************************)
(* C19: create_task of a name the tasks document lacks fails with the      *)
(* unknown-task error carrying the name, before any agent is looked up or  *)
(* created: agent table, task sequence and registry stay as they were.     *)
(***************************************************************************)
C19_UnknownTaskRejected ==
    [][(/\ Len(taskLog') = Len(taskLog) + 1
        /\ taskLog'[Len(taskLog')].name \notin TaskNames(tasks_config))
          => /\ taskLog' = Append(taskLog,
                    [run |-> runs, name |-> UnknownTask, ok |-> FALSE,
                     err |-> [kind |-> "UnknownTask", name |-> UnknownTask]])
             /\ agents' = agents
             /\ agentLog' = agentLog
             /\ tasks' = tasks
             /\ UNCHANGED regVars]_vars

\* the unknown name was asked of a manager that already held an agent and a
\* task, and they are still all it holds
C19_Witness ==
    /\ Len(taskLog) = 2
    /\ taskLog[1].ok
    /\ taskLog[2].err = [kind |-> "UnknownTask", name |-> UnknownTask]
    /\ Len(tasks) = 1
    /\ Len(agentLog) = 1

(***************************************************************************)
(* C20: in every reachable state of the registry the memoized set is       *)
(* closed under precedence predecessors: tedx_transcript memoized implies  *)
(* tedx_slug memoized, and tedx_slug memoized implies tedx_search memoized.*)
(***************************************************************************)
C20_MemoClosedUnderPredecessors ==
    /\ Memoized(tools, "tedx_transcript") => Memoized(tools, "tedx_slug")
    /\ Memoized(tools, "tedx_slug") => Memoized(tools, "tedx_search")
    /\ \A t \in MemoSet(tools) : StrictPredecessors(t) \subseteq MemoSet(tools)

\* the whole chain is memoized though only its last tool was ever requested
C20_Witness ==
    /\ Requested = {"tedx_transcript"}
    /\ MemoSet(tools) = {"tedx_search", "tedx_slug", "tedx_transcript"}

(***************************************************************************)
(* C21: the memo table only grows.  No get_tool call, whatever its name    *)
(* and outcome, removes a memoized entry or replaces its instance; a call  *)
(* for a memoized name changes nothing in the registry and does not walk   *)
(* the predecessors again (it is the only call the log gains).             *)
(***************************************************************************)
C21_MemoOnlyGrows ==
    [][/\ \A t \in AllNames : tools[t] # 0 => tools'[t] = tools[t]
       /\ \A t \in AllNames :
            (/\ tools[t] # 0
             /\ TopCalls(getLog') = TopCalls(getLog) + 1
             /\ getLog'[Len(getLog')].name = t)
               => /\ tools' = tools
                  /\ ctorLog' = ctorLog
                  /\ getLog' = Append(getLog,
                        [name |-> t, depth |-> 0, ok |-> TRUE,
                         inst |-> tools[t], err |-> NoErr])]_vars

\* a tool with a predecessor was obtained twice, a failed call in between
C21_Witness ==
    \E i, j, k \in TopGets :
        /\ i < j /\ j < k
        /\ getLog[i].name = "tedx_slug" /\ getLog[i].ok
        /\ ~getLog[j].ok
        /\ getLog[k].name = "tedx_slug" /\ getLog[k].inst = getLog[i].inst

(***************************************************************************)
(* C22: a predecessor's failure blocks its dependents.  When tedx_search   *)
(* cannot be built, every get_tool of tedx_slug or tedx_transcript fails   *)
(* with the error of tedx_search, neither of their constructors is ever    *)
(* invoked and none of the three is memoized; when tedx_slug cannot be     *)
(* built, get_tool of tedx_transcript fails with the error of tedx_slug    *)
(* and the constructor of tedx_transcript is never invoked.                *)
(***************************************************************************)
C22_PredecessorFailureBlocks ==
    /\ ~Usable("tedx_search")
         => /\ CtorCount("tedx_slug") = 0
            /\ CtorCount("tedx_transcript") = 0
            /\ MemoSet(tools) \cap TedxTools = {}
            /\ \A i \in Gets :
                 getLog[i].name \in {"tedx_slug", "tedx_transcript"}
                    => /\ ~getLog[i].ok
                       /\ getLog[i].err = FirstFailure(<<"tedx_search">>, 1)
    /\ (Usable("tedx_search") /\ ~Usable("tedx_slug"))
         => /\ CtorCount("tedx_transcript") = 0
            /\ MemoSet(tools) \cap {"tedx_slug", "tedx_transcript"} = {}
            /\ \A i \in Gets :
                 getLog[i].name = "tedx_transcript"
                    => /\ ~getLog[i].ok
                       /\ getLog[i].err = FirstFailure(<<"tedx_slug">>, 1)

\* tedx_search cannot be built and both dependents were requested
C22_Witness ==
    /\ ~Usable("tedx_search")
    /\ {"tedx_slug", "tedx_transcript"} \subseteq Requested
    /\ CtorCount("tedx_slug") = 0

(***************************************************************************)
(* C23: a failed agent creation is not memoized.  The agent table holds    *)
(* only agents whose creation succeeded; an agent that cannot be created   *)
(* is attempted anew by every task that names it, and these attempts       *)
(* reuse the tools the registry has memoized (no constructor that returned *)
(* is invoked again).                                                      *)
(***************************************************************************)
AgentAttempts(a) == {k \in 1..Len(agentLog) : agentLog[k].name = a}
TaskAttemptsNaming(a) ==
    {i \in 1..Len(taskLog) :
        /\ taskLog[i].name \in TaskNames(tasks_config)
        /\ tasks_config[TaskIndex(taskLog[i].name)].agent = a}

C23_FailedAgentRetried ==
    /\ \A a \in AgentUniverse :
         Memoized(agents, a)
            => /\ agents[a] \in AgentAttempts(a)
               /\ agentLog[agents[a]].ok
    /\ \A k \in 1..Len(agentLog) : ~agentLog[k].ok => agents[agentLog[k].name] = 0
    /\ \A a \in AgentUniverse :
         (\E k \in AgentAttempts(a) : ~agentLog[k].ok)
            => Cardinality(AgentAttempts(a)) = Cardinality(TaskAttemptsNaming(a))
    /\ \A t \in AllNames : ctorOK[t] => CtorCount(t) <= 1

\* in one pass two tasks named an agent that cannot be created; the second
\* attempt found the tool the first one had built
C23_Witness ==
    /\ runs = 1
    /\ \E a \in AgentNames :
         /\ Cardinality(AgentAttempts(a)) = 2
         /\ \A k \in AgentAttempts(a) : ~agentLog[k].ok
    /\ CtorCount("tedx_search") = 1
    /\ Memoized(tools, "tedx_search")

(***************************************************************************)
(* C24: a failing get_tool call can change the registry.  When get_tool(t) *)
(* fails at the step of t itself (missing data path or raising             *)
(* constructor) after its predecessors were obtained, the memo table after *)
(* the call is the table before it plus the predecessors of t, those not   *)
(* memoized before being the ones this call built; t is not in it.         *)
(***************************************************************************)
C24_FailedCallKeepsPredecessors ==
    [][\A t \in Recognized :
         (/\ TopCalls(getLog') = TopCalls(getLog) + 1
          /\ getLog'[Len(getLog')].name = t
          /\ getLog'[Len(getLog')].err.name = t
          /\ getLog'[Len(getLog')].err.kind \in {"MissingDataPath", "Constructor"})
            => /\ MemoSet(tools') = MemoSet(tools) \cup StrictPredecessors(t)
               /\ tools'[t] = 0
               /\ \A u \in MemoSet(tools) : tools'[u] = tools[u]
               /\ \A u \in StrictPredecessors(t) \ MemoSet(tools) :
                    /\ tools'[u] > Len(ctorLog)
                    /\ ctorLog'[tools'[u]].name = u]_vars

\* the only call so far, for tedx_transcript, failed at tedx_transcript and
\* left both predecessors memoized
C24_Witness ==
    /\ TopCalls(getLog) = 1
    /\ getLog[Len(getLog)].name = "tedx_transcript"
    /\ getLog[Len(getLog)].err.name = "tedx_transcript"
    /\ MemoSet(tools) = {"tedx_search", "tedx_slug"}

(***************************************************************************)
(* C25: tasks are not memoized by name, agents are.  Every successful      *)
(* create_task appends one Task; after k complete initialize_crew calls    *)
(* the task sequence holds k Tasks for every task name that can be built   *)
(* and none for the others, while every agent was created successfully at  *)
(* most once and all Tasks naming it hold that one instance.               *)
(***************************************************************************)
TasksNamed(n) == {i \in 1..Len(tasks) : tasks[i].name = n}

C25_TasksNotMemoized ==
    /\ Len(tasks) = Cardinality({i \in 1..Len(taskLog) : taskLog[i].ok})
    /\ (mstate = "READY" /\ pc = "idle")
         => \A i \in 1..Len(tasks_config) :
              Cardinality(TasksNamed(TaskName(i)))
                 = IF TaskSucceeds(i) THEN runs ELSE 0
    /\ \A a \in AgentUniverse :
         /\ Cardinality({k \in AgentAttempts(a) : agentLog[k].ok}) <= 1
         /\ \A i \in 1..Len(tasks) :
              tasks[i].agent_name = a => tasks[i].agent = agents[a] /\ agents[a] # 0

\* two complete calls: a task name with two Tasks, both on one agent instance
C25_Witness ==
    /\ pc = "idle"
    /\ runs = 2
    /\ \E i \in 1..Len(tasks_config) :
         /\ Cardinality(TasksNamed(TaskName(i))) = 2
         /\ Cardinality(AgentAttempts(tasks_config[i].agent)) = 1

(***************************************************************************)
(* C26: every top-level get_tool call terminates.  A call is never inside  *)
(* more than three get_tool activations, never inside two activations for  *)
(* one name, invokes at most three constructors, and, its thread being     *)
(* scheduled, comes to its end.                                            *)
(***************************************************************************)
C26_GetToolTerminates ==
    /\ [](\A k \in Threads :
            /\ Len(stack[k]) <= 3
            /\ \A i, j \in 1..Len(stack[k]) :
                 stack[k][i].name = stack[k][j].name => i = j
            /\ stack[k] # <<>> => stack[k][1].ctors <= 3
            /\ \A i \in 1..Len(results[k]) : results[k][i].ctors <= 3)
    /\ \A k \in Threads : (stack[k] # <<>>) ~> (stack[k] = <<>>)

\* a finished call for tedx_transcript that walked the whole chain and
\* invoked three constructors
C26_Witness ==
    \E k \in Threads :
        \E i \in 1..Len(results[k]) :
            /\ results[k][i].name = "tedx_transcript"
            /\ results[k][i].ok
            /\ results[k][i].ctors = 3

====
